---- MODULE Spec2Model ----
(***************************************************************************)
(* A state-machine model of train_pino-simple.py: the run setup            *)
(* (subprocess), the training loop (train_ns) and the evaluator (eval_ns). *)
(* Tensors are abstracted to small integers; the collaborators the file    *)
(* only calls (the model, the losses, the optimizer, the batch source,     *)
(* save_ckpt, the tracking library) are modelled by their effect on the    *)
(* state the file itself can observe.                                      *)
(***************************************************************************)
EXTENDS Integers, Sequences, FiniteSets, TLC

\* ------------------------------------------------------------------ bounds
MaxIter == 3        \* config.train.num_iter ranges over 0..MaxIter
MaxStep == 2        \* save_step and eval_step range over 1..MaxStep
MaxWeight == 1      \* the loss weights range over 0..MaxWeight
MaxLoss == 1        \* a loss / criterion value ranges over 0..MaxLoss
MaxTrain == 2       \* batches in one pass of the training loader: 1..MaxTrain
MaxVal == 2         \* batches in the validation / test loader: 1..MaxVal
MaxRes == 9         \* a resolution entry ranges over 1..MaxRes

VARIABLES
    \* --- the command line and the module-level import
    wandb,          \* TRUE iff `import wandb` succeeded (lines 18-21)
    args,           \* [log, test, ckpt]: ckpt is a checkpoint path or NoCkpt
    \* --- the configuration train_ns reads
    num_iter, save_step, eval_step,
    ic_weight, f_weight, xy_weight,
    pde_res, data_res,
    train_len,      \* len(train_u_loader), batches in one pass
    val_len,        \* len(val_loader)
    \* --- control
    pc, e, run,
    \* --- model, optimizer, scheduler, batch source
    w,              \* the model's parameters
    training,       \* the model's mode flag (model.training)
    opt,            \* the optimizer's state: [step, exp_avg]
    sched,          \* the scheduler's last_epoch
    it_pos,         \* position of the generator inside the current pass
    batch,          \* the batch last drawn
    \* --- the locals of one iteration
    s_step, t_step, u_pred_shape,
    data_loss, loss_ic, loss_f, loss, grad, log_dict,
    \* --- the locals of eval_ns
    caller, val_err, vi, avg_err,
    \* --- the world outside the process
    ckpts,          \* the files under exp/<logdir>/ckpts: iteration -> contents
    ckpt,           \* <<what torch.load returned at startup>>, or NoCkpt
    err,            \* the exception that ended the process, or "none"
    \* --- history (observation only, never read by an action's guard)
    trace,          \* the calls made, in order: <<name, iteration>>
    val_seen,       \* the batches eval_ns visited in its current pass
    fwd_modes,      \* the mode the forward pass of each iteration ran in
    after_step,     \* [model, optim] right after the optimizer step of iteration e
    entry_mode      \* the mode the model had when train_ns was entered

vars == <<wandb, args, num_iter, save_step, eval_step, ic_weight, f_weight,
          xy_weight, pde_res, data_res, train_len, val_len, pc, e, run, w,
          training, opt, sched, it_pos, batch, s_step, t_step, u_pred_shape,
          data_loss, loss_ic, loss_f, loss, grad, log_dict, caller, val_err,
          vi, avg_err, ckpts, ckpt, err, trace, val_seen, fwd_modes,
          after_step, entry_mode>>

cfgVars == <<wandb, args, num_iter, save_step, eval_step, ic_weight, f_weight,
             xy_weight, pde_res, data_res, train_len, val_len>>

\* args.ckpt when --ckpt is absent (None); also: nothing loaded.
NoCkpt == <<>>

\* ----------------------------------------------------------------- helpers
\* Number of entries of trace that are the call `name` (of any iteration).
Calls(name) == Cardinality({i \in DOMAIN trace : trace[i][1] = name})

\* Number of entries of trace equal to x.
Times(x) == Cardinality({i \in DOMAIN trace : trace[i] = x})

\* Position of the first entry x of trace, 0 when absent.
Pos(x) == IF \E i \in DOMAIN trace : trace[i] = x
          THEN CHOOSE i \in DOMAIN trace :
                   trace[i] = x /\ \A j \in 1..(i - 1) : trace[j] # x
          ELSE 0

Emit(x) == trace' = Append(trace, x)

\* ------------------------------------------------- pure parts of the code
\* range(config['train']['num_iter']): the loop runs while i < n.
InRangeOffByOne(i, n) == i <= n
InRange(i, n) == i < n

\* e % eval_step == 0
EvalDueShifted(i, step) == (i + 1) % step = 0
EvalDue(i, step) == i % step = 0

\* e % save_step == 0
SaveDueShifted(i, step) == (i + 1) % step = 0
SaveDue(i, step) == i % step = 0

\* if wandb and args.log
TrackingUnguarded == args.log
Tracking == wandb /\ args.log

\* if f_weight != 0.0
NeedPdeAnyWeight == f_weight # 0 \/ ic_weight # 0
NeedPde == f_weight # 0

\* loss = data_loss * xy_weight + loss_f * f_weight + loss_ic * ic_weight
TotalLoss(d, f, ic) == d * xy_weight + f * f_weight + ic * ic_weight

\* s_step = pde_res[0] // data_res[0]  (Python lists are 0-based, tuples here 1-based)
SStepCeil(p, d) == (p[1] + d[1] - 1) \div d[1]
SStep(p, d) == p[1] \div d[1]

\* t_step = (pde_res[2] - 1) // (data_res[2] - 1); a zero divisor raises
TStepNoMinusOne(p, d) == p[3] \div d[3]
TStep(p, d) == (p[3] - 1) \div (d[3] - 1)

\* Length of x[::k] for a dimension of n points, k >= 1: ceil(n / k).
SliceLen(n, k) == (n + k - 1) \div k

\* out[:, ::s_step, ::s_step, ::t_step] for out of the PDE resolution
Subsample(p, s, t) == <<SliceLen(p[1], s), SliceLen(p[2], s), SliceLen(p[3], t)>>

\* model(a): the output is a function of the parameters and the input
ModelOut(params, a) == params * a

\* loss.backward(): the gradient of the drawn batch
Grad(b) == b + 1

\* Adam(model.parameters()): no step taken, no moments
FreshAdam == [step |-> 0, exp_avg |-> 0]

\* optimizer.step(): the moments accumulate the gradient and move the parameters
AdamStep(params, o, g) ==
    LET m == o.exp_avg + g
    IN  [model |-> params - m, optim |-> [step |-> o.step + 1, exp_avg |-> m]]

\* model.eval(): the mode flag after eval_ns has run (never set back)
ModeAfterEvalRestored(m) == m
ModeAfterEval(m) == FALSE

\* val_err += val_loss.item()
AccumulateOverwrite(total, c) == c
Accumulate(total, c) == total + c

\* avg_err = val_err / len(val_loader), kept as an exact fraction
MeanOfBatches(total, n) == [num |-> total, den |-> n]

\* sample_data(loader): restarts the pass when the loader is exhausted
NextPos(pos, n) == (pos + 1) % n

\* os.path.join('exp', logdir, 'ckpts', f'model-{e}.pt'), as its components
CkptPath(i) == <<"exp", "logdir", "ckpts", "model-", i, ".pt">>

\* save_ckpt(path, model, optimizer): the file's contents
CkptContents == [model |-> w, optim |-> opt]

\* -------------------------------------------------------------------- Init
\* The state after the interpreter has loaded the module and parsed the
\* command line, for a configuration drawn from the given sets.
InitCfg(Iters, Steps, FW, OW, PRes, DRes, TrainLens, ValLens, Tests, Tracks) ==
    /\ wandb \in Tracks
    /\ args \in [log : Tracks, test : Tests, ckpt : {NoCkpt}]
    /\ num_iter \in Iters
    /\ save_step \in Steps
    /\ eval_step \in Steps
    /\ f_weight \in FW
    /\ ic_weight \in OW
    /\ xy_weight \in OW
    /\ pde_res \in {<<r[1], r[1], r[2]>> : r \in PRes}
    /\ data_res \in {<<r[1], r[1], r[2]>> : r \in DRes}
    /\ train_len \in TrainLens
    /\ val_len \in ValLens
    /\ pc = "start" /\ e = 0 /\ run = 1
    /\ w = 0 /\ training = TRUE
    /\ opt = FreshAdam /\ sched = 0 /\ it_pos = 0 /\ batch = 0
    /\ s_step = 0 /\ t_step = 0 /\ u_pred_shape = <<>>
    /\ data_loss = 0 /\ loss_ic = 0 /\ loss_f = 0 /\ loss = 0 /\ grad = 0
    /\ log_dict = {}
    /\ caller = "none" /\ val_err = 0 /\ vi = 0 /\ avg_err = MeanOfBatches(0, 1)
    /\ ckpts = <<>> /\ ckpt = NoCkpt /\ err = "none"
    /\ trace = <<>> /\ val_seen = <<>> /\ fwd_modes = <<>>
    /\ after_step = <<>> /\ entry_mode = TRUE
\* ----------------------------------------------------------------- actions
iterVars == <<s_step, t_step, u_pred_shape, data_loss, loss_ic, loss_f, loss,
              grad, log_dict>>
evalVars == <<caller, val_err, vi, avg_err, val_seen>>
optVars == <<w, opt, sched, after_step>>

\* subprocess, lines 141-216: build the model, load the weights of --ckpt,
\* then either evaluate (--test) or build optimizer and scheduler and train.
Subprocess ==
    /\ pc = "start"
    /\ IF args.ckpt # NoCkpt /\ args.ckpt \notin DOMAIN ckpts
       THEN /\ pc' = "error" /\ err' = "FileNotFoundError"
            /\ UNCHANGED <<w, ckpt, opt, sched, caller>>
       ELSE /\ err' = err
            /\ IF args.ckpt # NoCkpt
               THEN ckpt' = <<ckpts[args.ckpt]>> /\ w' = ckpts[args.ckpt].model
               ELSE UNCHANGED <<ckpt, w>>
            /\ IF args.test
               THEN /\ caller' = "test" /\ pc' = "eval_begin"
                    /\ UNCHANGED <<opt, sched>>
               ELSE /\ opt' = FreshAdam /\ sched' = 0
                    /\ caller' = caller /\ pc' = "setup"
    /\ UNCHANGED <<cfgVars, e, run, training, it_pos, batch, iterVars, val_err,
                   vi, avg_err, ckpts, trace, val_seen, fwd_modes, after_step,
                   entry_mode>>

\* train_ns, lines 50-86: the strides, the checkpoint directory, the tracker
\* run and the batch generator.
TrainSetup ==
    /\ pc = "setup"
    /\ entry_mode' = training
    /\ IF data_res[3] - 1 = 0
       THEN /\ pc' = "error" /\ err' = "ZeroDivisionError"
            /\ UNCHANGED <<s_step, t_step, trace, it_pos>>
       ELSE /\ s_step' = SStep(pde_res, data_res)
            /\ t_step' = TStep(pde_res, data_res)
            /\ IF Tracking THEN Emit(<<"wandb.init", 0>>) ELSE trace' = trace
            /\ it_pos' = 0
            /\ pc' = "loop_head" /\ err' = err
    /\ e' = 0
    /\ UNCHANGED <<cfgVars, run, training, batch, u_pred_shape, data_loss,
                   loss_ic, loss_f, loss, grad, log_dict, evalVars, optVars,
                   ckpts, ckpt, fwd_modes>>

\* line 88-89: the loop head; after the last iteration, lines 137-138 and 217.
LoopHead ==
    /\ pc = "loop_head"
    /\ IF InRange(e, num_iter)
       THEN /\ log_dict' = {} /\ pc' = "draw" /\ trace' = trace
       ELSE /\ log_dict' = log_dict /\ pc' = "done"
            /\ IF Tracking THEN Emit(<<"run.finish", e>>) ELSE trace' = trace
    /\ UNCHANGED <<cfgVars, e, run, training, it_pos, batch, s_step, t_step,
                   u_pred_shape, data_loss, loss_ic, loss_f, loss, grad,
                   evalVars, optVars, ckpts, ckpt, err, fwd_modes, entry_mode>>

\* lines 91-95: zero the gradients and draw the next batch.
Draw ==
    /\ pc = "draw"
    /\ grad' = 0
    /\ batch' = it_pos
    /\ it_pos' = NextPos(it_pos, train_len)
    /\ Emit(<<"next", e>>)
    /\ pc' = "forward"
    /\ UNCHANGED <<cfgVars, e, run, training, s_step, t_step, u_pred_shape,
                   data_loss, loss_ic, loss_f, loss, log_dict, evalVars,
                   optVars, ckpts, ckpt, err, fwd_modes, entry_mode>>

\* lines 98-102: forward pass, subsampling, data loss.
Forward ==
    /\ pc = "forward"
    /\ fwd_modes' = Append(fwd_modes, training)
    /\ IF s_step = 0 \/ t_step = 0
       THEN /\ pc' = "error" /\ err' = "ValueError"
            /\ UNCHANGED <<u_pred_shape, data_loss, trace>>
       ELSE /\ u_pred_shape' = Subsample(pde_res, s_step, t_step)
            /\ data_loss' \in 0..MaxLoss
            /\ Emit(<<"forward", e>>)
            /\ pc' = "pde" /\ err' = err
    /\ UNCHANGED <<cfgVars, e, run, training, it_pos, batch, s_step, t_step,
                   loss_ic, loss_f, loss, grad, log_dict, evalVars, optVars,
                   ckpts, ckpt, entry_mode>>

\* lines 104-112: the PDE residual when its weight is not zero, the total loss.
PdeLoss ==
    /\ pc = "pde"
    /\ IF NeedPde
       THEN /\ loss_ic' \in 0..MaxLoss
            /\ loss_f' \in 0..MaxLoss
            /\ log_dict' = log_dict \cup {"IC", "PDE"}
            /\ Emit(<<"PINO_loss3d", e>>)
       ELSE /\ loss_ic' = 0 /\ loss_f' = 0
            /\ UNCHANGED <<log_dict, trace>>
    /\ loss' = TotalLoss(data_loss, loss_f', loss_ic')
    /\ pc' = "backward"
    /\ UNCHANGED <<cfgVars, e, run, training, it_pos, batch, s_step, t_step,
                   u_pred_shape, data_loss, grad, evalVars, optVars, ckpts,
                   ckpt, err, fwd_modes, entry_mode>>

\* line 114: loss.backward().
Backward ==
    /\ pc = "backward"
    /\ grad' = Grad(batch)
    /\ Emit(<<"backward", e>>)
    /\ pc' = "opt_step"
    /\ UNCHANGED <<cfgVars, e, run, training, it_pos, batch, s_step, t_step,
                   u_pred_shape, data_loss, loss_ic, loss_f, loss, log_dict,
                   evalVars, optVars, ckpts, ckpt, err, fwd_modes, entry_mode>>

\* line 115: optimizer.step().
OptimizerStep ==
    /\ pc = "opt_step"
    /\ w' = AdamStep(w, opt, grad).model
    /\ opt' = AdamStep(w, opt, grad).optim
    /\ after_step' = (e :> AdamStep(w, opt, grad)) @@ after_step
    /\ Emit(<<"optimizer.step", e>>)
    /\ pc' = "sched_step"
    /\ UNCHANGED <<cfgVars, e, run, training, it_pos, batch, iterVars,
                   evalVars, sched, ckpts, ckpt, err, fwd_modes, entry_mode>>

\* lines 116-119: scheduler.step(), then the iteration's scalars are logged.
SchedulerStep ==
    /\ pc = "sched_step"
    /\ sched' = sched + 1
    /\ log_dict' = log_dict \cup {"train loss", "data"}
    /\ Emit(<<"scheduler.step", e>>)
    /\ pc' = "eval_check"
    /\ UNCHANGED <<cfgVars, e, run, training, it_pos, batch, s_step, t_step,
                   u_pred_shape, data_loss, loss_ic, loss_f, loss, grad,
                   evalVars, w, opt, after_step, ckpts, ckpt, err, fwd_modes,
                   entry_mode>>

\* line 120: validate every eval_step iterations.
EvalCheck ==
    /\ pc = "eval_check"
    /\ IF EvalDue(e, eval_step)
       THEN caller' = "train" /\ pc' = "eval_begin"
       ELSE caller' = caller /\ pc' = "log"
    /\ UNCHANGED <<cfgVars, e, run, training, it_pos, batch, iterVars,
                   val_err, vi, avg_err, val_seen, optVars, ckpts, ckpt, err,
                   trace, fwd_modes, entry_mode>>

\* eval_ns, lines 29-30.
EvalBegin ==
    /\ pc = "eval_begin"
    /\ training' = ModeAfterEval(training)
    /\ val_err' = 0 /\ vi' = 0 /\ val_seen' = <<>>
    /\ Emit(<<"eval_ns", e>>)
    /\ pc' = "eval_loop"
    /\ UNCHANGED <<cfgVars, e, run, it_pos, batch, iterVars, caller, avg_err,
                   optVars, ckpts, ckpt, err, fwd_modes, entry_mode>>

\* eval_ns, lines 31-38: one batch of the loader.
EvalBatch ==
    /\ pc = "eval_loop"
    /\ vi < val_len
    /\ \E c \in 0..MaxLoss :
          /\ val_err' = Accumulate(val_err, c)
          /\ val_seen' = Append(val_seen, [batch |-> vi, value |-> c])
    /\ vi' = vi + 1
    /\ UNCHANGED <<cfgVars, pc, e, run, training, it_pos, batch, iterVars,
                   caller, avg_err, optVars, ckpts, ckpt, err, trace,
                   fwd_modes, entry_mode>>

\* eval_ns, lines 39-40, and the caller's use of the result (122 or 184).
EvalEnd ==
    /\ pc = "eval_loop"
    /\ vi = val_len
    /\ avg_err' = MeanOfBatches(val_err, val_len)
    /\ IF caller = "train"
       THEN log_dict' = log_dict \cup {"val error"} /\ pc' = "log"
       ELSE log_dict' = log_dict /\ pc' = "done"
    /\ UNCHANGED <<cfgVars, e, run, training, it_pos, batch, s_step, t_step,
                   u_pred_shape, data_loss, loss_ic, loss_f, loss, grad,
                   caller, val_err, vi, val_seen, optVars, ckpts, ckpt, err,
                   trace, fwd_modes, entry_mode>>

\* lines 124-131: show the record, forward it to the tracker when enabled.
Log ==
    /\ pc = "log"
    /\ IF Tracking THEN Emit(<<"wandb.log", e>>) ELSE trace' = trace
    /\ pc' = "save_check"
    /\ UNCHANGED <<cfgVars, e, run, training, it_pos, batch, iterVars,
                   evalVars, optVars, ckpts, ckpt, err, fwd_modes, entry_mode>>

\* lines 132-134: checkpoint every save_step iterations; then the next e.
SaveCheck ==
    /\ pc = "save_check"
    /\ IF SaveDue(e, save_step)
       THEN /\ ckpts' = (CkptPath(e) :> CkptContents) @@ ckpts
            /\ Emit(<<"save_ckpt", e>>)
       ELSE UNCHANGED <<ckpts, trace>>
    /\ e' = e + 1
    /\ pc' = "loop_head"
    /\ UNCHANGED <<cfgVars, run, training, it_pos, batch, iterVars, evalVars,
                   optVars, ckpt, err, fwd_modes, entry_mode>>

Next ==
    \/ Subprocess \/ TrainSetup \/ LoopHead \/ Draw \/ Forward \/ PdeLoss
    \/ Backward \/ OptimizerStep \/ SchedulerStep \/ EvalCheck \/ EvalBegin
    \/ EvalBatch \/ EvalEnd \/ Log \/ SaveCheck

\* lines 221-233 run again: a second process, started with --ckpt naming a
\* checkpoint the first run left on disk.
Relaunch ==
    /\ pc = "done" /\ run = 1 /\ ~args.test
    /\ \E path \in DOMAIN ckpts : args' = [args EXCEPT !.ckpt = path]
    /\ run' = 2
    /\ pc' = "start" /\ e' = 0
    /\ w' = 0 /\ training' = TRUE
    /\ opt' = FreshAdam /\ sched' = 0 /\ it_pos' = 0 /\ batch' = 0
    /\ s_step' = 0 /\ t_step' = 0 /\ u_pred_shape' = <<>>
    /\ data_loss' = 0 /\ loss_ic' = 0 /\ loss_f' = 0 /\ loss' = 0 /\ grad' = 0
    /\ log_dict' = {}
    /\ caller' = "none" /\ val_err' = 0 /\ vi' = 0
    /\ avg_err' = MeanOfBatches(0, 1)
    /\ ckpt' = NoCkpt /\ err' = "none"
    /\ trace' = <<>> /\ val_seen' = <<>> /\ fwd_modes' = <<>>
    /\ after_step' = <<>> /\ entry_mode' = TRUE
    /\ UNCHANGED <<wandb, num_iter, save_step, eval_step, ic_weight, f_weight,
                   xy_weight, pde_res, data_res, train_len, val_len, ckpts>>

NextResume == Next \/ Relaunch

\* The schedule of a run: iterations, cadences, training loader, tracking,
\* --test, with and without the PDE loss.
Init ==
    InitCfg(0..MaxIter, 1..MaxStep, {0, 1}, {1}, {<<2, 3>>}, {<<1, 2>>},
            1..MaxTrain, {1}, BOOLEAN, BOOLEAN)

Spec == Init /\ [][Next]_vars

\* The loss weights of a training run.
InitLoss ==
    InitCfg({MaxStep}, 1..MaxStep, 0..MaxWeight, 0..MaxWeight, {<<2, 3>>},
            {<<1, 2>>}, {1}, {1}, {FALSE}, {FALSE})

SpecLoss == InitLoss /\ [][Next]_vars

\* The loader eval_ns walks, under --test and inside a training run.
InitEval ==
    InitCfg({MaxStep}, 1..MaxStep, {0}, {1}, {<<2, 3>>}, {<<1, 2>>}, {1},
            1..MaxVal, BOOLEAN, {FALSE})

SpecEval == InitEval /\ [][Next]_vars

\* The resolutions of a training run of one iteration.
ResSet == (1..MaxRes) \X (1..MaxRes)

InitStride ==
    InitCfg({1}, {1}, {0}, {1}, ResSet, ResSet, {1}, {1}, {FALSE}, {FALSE})

SpecStride == InitStride /\ [][Next]_vars

\* A training run followed by a second run resumed from one of its checkpoints.
InitResume ==
    InitCfg({MaxStep}, 1..MaxStep, {0}, {1}, {<<2, 3>>}, {<<1, 2>>},
            1..MaxTrain, {1}, {FALSE}, {FALSE})

SpecResume == InitResume /\ [][NextResume]_vars
\* ------------------------------------------------------------- properties
RECURSIVE SumValues(_)
SumValues(s) == IF s = <<>> THEN 0 ELSE Head(s).value + SumValues(Tail(s))

\* The checkpoint file of iteration i, as the claims name it.
ModelPt(i) == <<"exp", "logdir", "ckpts", "model-", i, ".pt">>

IsTrackerCall(x) == x[1] \in {"wandb.init", "wandb.log", "run.finish"}
IsTrainingCall(x) == ~IsTrackerCall(x)

\* The calls of iteration i that do not go to the tracker, from the
\* configuration alone.
IterationCalls(i) ==
    <<<<"next", i>>, <<"forward", i>>>>
    \o (IF f_weight # 0 THEN <<<<"PINO_loss3d", i>>>> ELSE <<>>)
    \o <<<<"backward", i>>, <<"optimizer.step", i>>, <<"scheduler.step", i>>>>
    \o (IF i % eval_step = 0 THEN <<<<"eval_ns", i>>>> ELSE <<>>)
    \o (IF i % save_step = 0 THEN <<<<"save_ckpt", i>>>> ELSE <<>>)

RECURSIVE Schedule(_)
Schedule(n) == IF n = 0 THEN <<>> ELSE Schedule(n - 1) \o IterationCalls(n - 1)

\* The forward pass (and the slicing after it) of the current iteration is over.
AfterForward == pc \notin {"start", "setup", "loop_head", "draw", "forward"}

\* C1: a training run never blocks before it is done, and when it is done it
\* has made exactly num_iter iterations: num_iter batches drawn, num_iter
\* optimizer steps, num_iter scheduler steps, one of each per iteration with
\* the scheduler step after the optimizer step; also when num_iter exceeds
\* the batches of one pass.
C1_ExactlyNumIter ==
    ~args.test =>
        /\ e <= num_iter
        /\ (pc # "done" => ENABLED Next)
        /\ \A i \in 0..(e - 1) :
              /\ Times(<<"next", i>>) = 1
              /\ Times(<<"optimizer.step", i>>) = 1
              /\ Times(<<"scheduler.step", i>>) = 1
              /\ Pos(<<"next", i>>) < Pos(<<"optimizer.step", i>>)
              /\ Pos(<<"optimizer.step", i>>) < Pos(<<"scheduler.step", i>>)
        /\ (pc = "done" =>
              /\ e = num_iter
              /\ Calls("next") = num_iter
              /\ Calls("optimizer.step") = num_iter
              /\ Calls("scheduler.step") = num_iter
              /\ opt.step = num_iter
              /\ sched = num_iter)

C1_Witness ==
    /\ pc = "done" /\ ~args.test
    /\ num_iter > train_len /\ train_len > 1
    /\ Calls("next") = num_iter

\* C2: with f_weight = 0 the loss handed to backward is data_loss * xy_weight
\* whatever ic_weight is, and PINO_loss3d is called in an iteration exactly
\* when f_weight is not 0.
C2_LossWithoutPde ==
    /\ (pc = "backward" /\ f_weight = 0) => loss = data_loss * xy_weight
    /\ \A i \in 0..e : Times(<<"PINO_loss3d", i>>) > 0 => f_weight # 0
    /\ \A i \in 0..(e - 1) : f_weight # 0 => Times(<<"PINO_loss3d", i>>) = 1
    /\ pc = "backward" => (Times(<<"PINO_loss3d", e>>) = 1 <=> f_weight # 0)

C2_Witness ==
    /\ pc = "backward" /\ f_weight = 0 /\ ic_weight > 0 /\ xy_weight > 0
    /\ data_loss > 0 /\ loss = data_loss * xy_weight /\ e > 0

\* C3: the checkpoint of iteration i exists exactly when i % save_step = 0, is
\* named model-<i>.pt under exp/<logdir>/ckpts, holds model and optimizer as
\* they were right after the optimizer step of iteration i, is written once and
\* stays as written; at the end the files are exactly those of the iterations
\* below num_iter that save_step divides.
C3_Checkpoints ==
    ~args.test =>
        /\ DOMAIN ckpts \subseteq {ModelPt(i) : i \in 0..(e - 1)}
        /\ \A i \in 0..(e - 1) :
              /\ (ModelPt(i) \in DOMAIN ckpts) <=> (i % save_step = 0)
              /\ Times(<<"save_ckpt", i>>) = (IF i % save_step = 0 THEN 1 ELSE 0)
              /\ ModelPt(i) \in DOMAIN ckpts =>
                    /\ ckpts[ModelPt(i)] = after_step[i]
                    /\ Pos(<<"optimizer.step", i>>) < Pos(<<"save_ckpt", i>>)
        /\ (pc = "done" =>
              DOMAIN ckpts =
                  {ModelPt(i) : i \in {j \in 0..(num_iter - 1) : j % save_step = 0}})

C3_Witness ==
    /\ pc = "done" /\ ~args.test /\ save_step > 1
    /\ Cardinality(DOMAIN ckpts) > 1
    /\ Cardinality(DOMAIN ckpts) < num_iter

\* C4: eval_ns runs in iteration i exactly when i % eval_step = 0, after that
\* iteration's optimizer and scheduler steps and before its checkpoint, and the
\* iteration's log record has the key 'val error' exactly when it ran.
C4_Validation ==
    ~args.test =>
        /\ \A i \in 0..(e - 1) :
              Times(<<"eval_ns", i>>) = (IF i % eval_step = 0 THEN 1 ELSE 0)
        /\ \A i \in 0..e :
              Times(<<"eval_ns", i>>) > 0 =>
                  /\ i % eval_step = 0
                  /\ 0 < Pos(<<"optimizer.step", i>>)
                  /\ Pos(<<"optimizer.step", i>>) < Pos(<<"scheduler.step", i>>)
                  /\ Pos(<<"scheduler.step", i>>) < Pos(<<"eval_ns", i>>)
                  /\ Pos(<<"save_ckpt", i>>) > 0 =>
                        Pos(<<"eval_ns", i>>) < Pos(<<"save_ckpt", i>>)
        /\ (pc \in {"log", "save_check"} =>
              /\ ("val error" \in log_dict) <=> (Times(<<"eval_ns", e>>) = 1)
              /\ (Times(<<"eval_ns", e>>) = 1) <=> (e % eval_step = 0))

C4_Witness ==
    /\ pc = "save_check" /\ ~args.test /\ e = 1 /\ eval_step > 1
    /\ "val error" \notin log_dict
    /\ Times(<<"eval_ns", 0>>) = 1 /\ Times(<<"save_ckpt", 0>>) = 1

\* C5: eval_ns visits the batches of its loader once each, in loader order, and
\* returns the sum of the per-batch criterion values over the number of batches.
C5_EvalMean ==
    /\ pc = "eval_loop" =>
          /\ Len(val_seen) = vi
          /\ \A k \in 1..vi : val_seen[k].batch = k - 1
          /\ val_err = SumValues(val_seen)
    /\ (vi = val_len /\ pc # "eval_loop") =>
          /\ Len(val_seen) = val_len
          /\ \A k \in 1..val_len : val_seen[k].batch = k - 1
          /\ avg_err.num = SumValues(val_seen)
          /\ avg_err.den = val_len

C5_Witness ==
    /\ pc = "done" /\ args.test /\ val_len > 1 /\ vi = val_len
    /\ val_seen[1].value > 0 /\ val_seen[val_len].value > 0
    /\ avg_err.num = val_len

\* C9: the tracker is called only when wandb was imported and --log given: then
\* once to start the run, before the first iteration, once per iteration after
\* that iteration's optimizer step, and once to finish, after the last; in
\* every case the other calls are the schedule the configuration alone fixes.
C9_Tracker ==
    ~args.test =>
        /\ ~(wandb /\ args.log) =>
              \A k \in DOMAIN trace : ~IsTrackerCall(trace[k])
        /\ (wandb /\ args.log /\ pc \notin {"start", "setup"}) =>
              /\ Calls("wandb.init") = 1
              /\ trace[1] = <<"wandb.init", 0>>
              /\ Calls("wandb.log") = e + (IF pc = "save_check" THEN 1 ELSE 0)
              /\ \A i \in 0..(e - 1) :
                    /\ Times(<<"wandb.log", i>>) = 1
                    /\ Pos(<<"optimizer.step", i>>) < Pos(<<"wandb.log", i>>)
              /\ Calls("run.finish") = (IF pc = "done" THEN 1 ELSE 0)
              /\ pc = "done" => trace[Len(trace)] = <<"run.finish", num_iter>>
        /\ (pc = "done" => SelectSeq(trace, IsTrainingCall) = Schedule(num_iter))

C9_Witness ==
    /\ pc = "done" /\ ~args.test /\ wandb /\ args.log
    /\ num_iter > 1 /\ Calls("wandb.log") = num_iter
    /\ Calls("run.finish") = 1

\* C10: once eval_ns has run the model stays in evaluation mode, so the forward
\* pass of iteration 0 runs in the mode the model had at entry and the forward
\* pass of every later iteration runs in evaluation mode.
C10_EvalModeSticks ==
    ~args.test =>
        /\ Calls("eval_ns") > 0 => ~training
        /\ e > 0 => Times(<<"eval_ns", 0>>) = 1
        /\ \A k \in DOMAIN fwd_modes :
              /\ k = 1 => fwd_modes[k] = entry_mode
              /\ k > 1 => (fwd_modes[k] = FALSE /\ fwd_modes[k] # entry_mode)

C10_Witness ==
    /\ ~args.test /\ Len(fwd_modes) > 2 /\ eval_step > 1
    /\ fwd_modes[1] = TRUE /\ fwd_modes[2] = FALSE /\ fwd_modes[3] = FALSE
\* The checkpoint round trip, first half: from the load at startup up to the
\* first optimizer step the resumed model gives the saved model's output.
ResumedOutputRestored ==
    (run = 2 /\ ckpt # NoCkpt /\ e = 0
       /\ pc \in {"setup", "loop_head", "draw", "forward", "pde", "backward",
                  "opt_step"}) =>
        \A a \in 0..MaxLoss : ModelOut(w, a) = ModelOut(ckpt[1].model, a)

\* C6: a run resumed with --ckpt gives the saved model's output on any input,
\* and its first optimizer step is the step the saving run would have taken
\* next from the saved model and optimizer state on the same gradient.
C6_RoundTrip ==
    /\ ResumedOutputRestored
    /\ (run = 2 /\ ckpt # NoCkpt /\ e = 0 /\ pc = "sched_step") =>
          [model |-> w, optim |-> opt] = AdamStep(ckpt[1].model, ckpt[1].optim, grad)

\* d divides n, for a divisor that is not zero.
Divides(d, n) == d > 0 /\ \E k \in 0..n : n = k * d

\* One of the two stride ratios is not a whole number (the temporal ratio is
\* only defined for data_res[2] > 1).
NonIntegerRatio ==
    /\ data_res[3] > 1
    /\ \/ pde_res[1] % data_res[1] # 0
       \/ (pde_res[3] - 1) % (data_res[3] - 1) # 0

\* C7, as claimed: whenever a stride ratio is not a whole number, computing the
\* strides and slicing raises nothing and the slice's shape is not data_res.
C7_AsClaimed ==
    (NonIntegerRatio /\ AfterForward) =>
        (pc # "error" /\ u_pred_shape # data_res)

\* C7, amended: with a ratio that is not a whole number, the slicing raises
\* ValueError when a floor stride is 0 (a PDE resolution below the data
\* resolution); otherwise nothing is raised and the slice's shape differs from
\* data_res, except when the spatial ratio is whole and the temporal remainder
\* is below t_step: then the shape is data_res and only the sampled times are
\* off (the last sampled time is before the last PDE time).
C7_SilentOrRaises ==
    (NonIntegerRatio /\ AfterForward) =>
        LET P == pde_res[1]
            D == data_res[1]
            T == pde_res[3] - 1
            U == data_res[3] - 1
        IN  IF P < D \/ T < U
            THEN pc = "error" /\ err = "ValueError"
            ELSE /\ pc # "error" /\ err = "none"
                 /\ (u_pred_shape = data_res) <=> (P % D = 0 /\ T % U < T \div U)
                 /\ u_pred_shape = data_res => U * t_step < T

C7_Witness ==
    /\ NonIntegerRatio /\ pc = "pde"
    /\ pde_res[1] > data_res[1] /\ pde_res[1] % data_res[1] # 0
    /\ u_pred_shape[1] > data_res[1]

\* C8, as claimed: whenever data_res[0] divides pde_res[0] and data_res[2]-1
\* divides pde_res[2]-1, the slice has the shape data_res.
C8_AsClaimed ==
    (/\ Divides(data_res[1], pde_res[1])
     /\ Divides(data_res[3] - 1, pde_res[3] - 1)
     /\ AfterForward) =>
        (pc # "error" /\ u_pred_shape = data_res)

\* C8, amended: the same with pde_res[2] >= 2 and data_res[2] >= 2, so that
\* the temporal stride is at least 1; the strides are then the exact ratios.
C8_ExactStrides ==
    (/\ Divides(data_res[1], pde_res[1])
     /\ Divides(data_res[3] - 1, pde_res[3] - 1)
     /\ pde_res[3] >= 2 /\ data_res[3] >= 2
     /\ AfterForward) =>
        /\ pc # "error" /\ err = "none"
        /\ s_step * data_res[1] = pde_res[1]
        /\ t_step * (data_res[3] - 1) = pde_res[3] - 1
        /\ u_pred_shape = data_res

C8_Witness ==
    /\ pc = "pde" /\ pde_res = <<8, 8, 9>> /\ data_res = <<4, 4, 5>>
    /\ s_step = 2 /\ t_step = 2 /\ u_pred_shape = <<4, 4, 5>>
====
